---- MODULE Spec2Model ----
(***************************************************************************)
(* Register-mapped GPIO driver and SysTick tick clock of the blink         *)
(* firmware (demo-project/drivers/gpio.c, demo-project/drivers/systick.c). *)
(*                                                                         *)
(* Two contexts run on one core: the main context, which calls the driver  *)
(* functions, and an interrupt handler, which preempts the main context    *)
(* between any two of its register accesses and runs to completion.  A     *)
(* main-context call is therefore modelled one volatile load or store per  *)
(* step; a call made from the handler is modelled as one step.             *)
(***************************************************************************)
EXTENDS Integers, Sequences, FiniteSets, TLC

(***************************************************************************)
(* A 32-bit register value (u32 / vu32) is the set of the positions of its *)
(* one bits, so that the C operators &, |, ^, ~ and << act on it bit by    *)
(* bit at the width of the type.                                           *)
(***************************************************************************)
BitPos == 0 .. 31

\* The bit pattern of a non-negative integer constant of the source.
Bits(n) == {i \in 0 .. 30 : (n \div 2^i) % 2 = 1}

BitAnd(a, b) == a \cap b

BitOr(a, b) == a \cup b

BitXor(a, b) == (a \ b) \cup (b \ a)

BitNot(a) == BitPos \ a

\* a << k: the bits shifted past bit 31 are lost.  For 0xF << 28 the C
\* operand is a signed int and the result does not fit it; the compilers
\* this firmware is built with define the result as the wrapped 32-bit
\* pattern, which is what the conversion to u32 of the enclosing
\* expression then sees.
Shl(a, k) == {i + k : i \in {j \in a : j + k \in BitPos}}

\* Readers used by the properties and the peripheral, not by the driver.
Bit(x, i) == IF i \in x THEN 1 ELSE 0

Nibble(x, k) ==
    Bit(x, 4 * k) + 2 * Bit(x, 4 * k + 1) + 4 * Bit(x, 4 * k + 2) + 8 * Bit(x, 4 * k + 3)

\* The register value with the 16-bit halves hi and lo.
Word32(hi, lo) == Bits(lo) \cup Shl(Bits(hi), 16)

(***************************************************************************)
(* gpio.c: configuration register values.                                  *)
(***************************************************************************)
GPIO_MODE_INPUT == 0
GPIO_MODE_OUTPUT_10MHZ == 1
GPIO_MODE_OUTPUT_2MHZ == 2
GPIO_MODE_OUTPUT_50MHZ == 3

GPIO_CNF_INPUT_ANALOG == 0
GPIO_CNF_INPUT_FLOATING == 1
GPIO_CNF_INPUT_PUPD == 2

GPIO_CNF_OUTPUT_PP == 0
GPIO_CNF_OUTPUT_OD == 1
GPIO_CNF_AF_PP == 2
GPIO_CNF_AF_OD == 3

\* pin_mode_t, pin_state_t and status_t come from types.h; only the names of
\* their enumerators are used by the driver, so they are kept symbolic.
PinModes == {"PIN_MODE_INPUT", "PIN_MODE_OUTPUT", "PIN_MODE_ALTERNATE", "PIN_MODE_ANALOG"}

PinStates == {"PIN_HIGH", "PIN_LOW"}

\* GPIO_PinState_t of the reference project.
GPIO_PinStates == {"GPIO_PIN_SET", "GPIO_PIN_RESET"}

\* (cnf << 2) | mode, as the cases of the switch compute it.
CnfMode(cnf, mode) == BitOr(Shl(Bits(cnf), 2), Bits(mode))

\* The switch of gpio_configure: the 4-bit configuration of a mode; ok is
\* FALSE for the default branch.
ModeConfig(mode) ==
    CASE mode = "PIN_MODE_INPUT" ->
            [ok |-> TRUE, config |-> CnfMode(GPIO_CNF_INPUT_FLOATING, GPIO_MODE_INPUT)]
      [] mode = "PIN_MODE_OUTPUT" ->
            [ok |-> TRUE, config |-> CnfMode(GPIO_CNF_OUTPUT_PP, GPIO_MODE_OUTPUT_2MHZ)]
      [] mode = "PIN_MODE_ALTERNATE" ->
            [ok |-> TRUE, config |-> CnfMode(GPIO_CNF_AF_PP, GPIO_MODE_OUTPUT_50MHZ)]
      [] mode = "PIN_MODE_ANALOG" ->
            [ok |-> TRUE, config |-> CnfMode(GPIO_CNF_INPUT_ANALOG, GPIO_MODE_INPUT)]
      [] OTHER -> [ok |-> FALSE, config |-> {}]

\* The parameter checks of gpio_configure (port == NULL || pin > 15, then
\* the default branch of the switch).
ConfigureStatus_off(valid, pin, mode) ==
    IF ~valid \/ pin > 16 THEN "STATUS_INVALID_PARAM"
    ELSE IF ~ModeConfig(mode).ok THEN "STATUS_INVALID_PARAM"
    ELSE "STATUS_OK"

ConfigureStatus(valid, pin, mode) ==
    IF ~valid \/ pin > 15 THEN "STATUS_INVALID_PARAM"
    ELSE IF ~ModeConfig(mode).ok THEN "STATUS_INVALID_PARAM"
    ELSE "STATUS_OK"

\* if (pin < 8) CRL, shift = pin * 4; else CRH, shift = (pin - 8) * 4.
ConfigWord_le(pin) == IF pin <= 8 THEN "CRL" ELSE "CRH"

ConfigWord(pin) == IF pin < 8 THEN "CRL" ELSE "CRH"

ConfigShift(pin) == IF pin < 8 THEN pin * 4 ELSE (pin - 8) * 4

\* word &= ~(0xF << shift): the value stored.
ClearValue_wide(word, shift) == BitAnd(word, BitNot(Shl(Bits(255), shift)))

ClearValue(word, shift) == BitAnd(word, BitNot(Shl(Bits(15), shift)))

\* word |= (config << shift): the value stored.
SetValue(word, config, shift) == BitOr(word, Shl(config, shift))

\* gpio_write: the register stored to and the value stored.
WriteReg_swapped(state) == IF state = "PIN_HIGH" THEN "BRR" ELSE "BSRR"

WriteReg_odr(state) == "ODR"

WriteReg(state) == IF state = "PIN_HIGH" THEN "BSRR" ELSE "BRR"

WriteValue(pin) == Shl(Bits(1), pin)

\* GPIO_WritePin of the reference project: always BSRR; bit pin to set the
\* pin, bit pin + 16 to reset it.
WritePinValue_noshift(pin, state) == Shl(Bits(1), pin)

WritePinValue(pin, state) ==
    IF state = "GPIO_PIN_SET" THEN Shl(Bits(1), pin) ELSE Shl(Bits(1), pin + 16)

\* GPIO_Init of the reference project.  GPIO_Mode_t has the enumerators
\* GPIO_MODE_INPUT = 0 .. GPIO_MODE_OUTPUT_50MHZ = 3, GPIO_Config_t the
\* enumerators GPIO_CNF_INPUT_ANALOG = 0, GPIO_CNF_INPUT_FLOATING,
\* GPIO_CNF_INPUT_PULL, GPIO_CNF_OUTPUT_PP, GPIO_CNF_OUTPUT_OD,
\* GPIO_CNF_OUTPUT_AF_PP, GPIO_CNF_OUTPUT_AF_OD = 6.
GPIO_Mode_t == 0 .. 3

GPIO_Config_t == 0 .. 6

\* pos = (pin < 8) ? (pin * 4) : ((pin - 8) * 4); cr = (pin < 8) ? CRL : CRH.
InitPos(pin) == IF pin < 8 THEN pin * 4 ELSE (pin - 8) * 4

InitWord(pin) == IF pin < 8 THEN "CRL" ELSE "CRH"

\* *cr &= ~(0xF << pos): the value stored.
InitClear(word, pos) == BitAnd(word, BitNot(Shl(Bits(15), pos)))

\* *cr |= ((mode | (config << 2)) << pos): the value stored.
InitSet(word, mode, config, pos) ==
    BitOr(word, Shl(BitOr(Bits(mode), Shl(Bits(config), 2)), pos))

\* gpio_read: (port->IDR & (1 << pin)) ? PIN_HIGH : PIN_LOW.
gpio_read_odr(p, pin) ==
    IF BitAnd(p.ODR, Shl(Bits(1), pin)) # {} THEN "PIN_HIGH" ELSE "PIN_LOW"

gpio_read(p, pin) ==
    IF BitAnd(p.IDR, Shl(Bits(1), pin)) # {} THEN "PIN_HIGH" ELSE "PIN_LOW"

\* gpio_toggle: the value stored to ODR, from the value loaded from it.
ToggleValue_set(odr, pin) == BitOr(odr, Shl(Bits(1), pin))

ToggleValue(odr, pin) == BitXor(odr, Shl(Bits(1), pin))

(***************************************************************************)
(* The GPIO peripheral behind the register block (gpio_port_t).  BSRR and  *)
(* BRR are write-only set/reset registers: a store to one of them changes  *)
(* ODR, bit i of BSRR setting output i, bit i+16 of BSRR and bit i of BRR  *)
(* resetting it (set wins).  IDR is read-only and samples the pads: a pad  *)
(* driven push-pull by the port follows its ODR bit, an analog pad reads   *)
(* 0, an open-drain pad with ODR bit 0 is pulled low, and every other pad  *)
(* (input, open-drain released, alternate function) has the level applied  *)
(* from outside, pad.  BSRR and BRR keep the last value stored, as a fake  *)
(* register block would.                                                   *)
(***************************************************************************)
PinNibble(p, i) == Nibble(IF i < 8 THEN p.CRL ELSE p.CRH, i % 8)

PinLevel(p, pad, i) ==
    LET n == PinNibble(p, i) IN
    IF n \in {1, 2, 3} THEN Bit(p.ODR, i)
    ELSE IF n = 0 THEN 0
    ELSE IF n \in {5, 6, 7} /\ Bit(p.ODR, i) = 0 THEN 0
    ELSE Bit(pad, i)

PinLevels(p, pad) == {i \in 0 .. 15 : PinLevel(p, pad, i) = 1}

Periph(p, pad, reg) ==
    LET odr == CASE reg = "BSRR" ->
                      (p.ODR \ {i - 16 : i \in {j \in p.BSRR : j >= 16}})
                         \cup {i \in p.BSRR : i < 16}
                 [] reg = "BRR" -> p.ODR \ {i \in p.BRR : i < 16}
                 [] OTHER -> p.ODR
        q == [p EXCEPT !.ODR = odr]
    IN  [q EXCEPT !.IDR = PinLevels(q, pad)]

\* One volatile store: the register takes the value, the peripheral reacts.
Store(p, pad, reg, val) == Periph([p EXCEPT ![reg] = val], pad, reg)

(***************************************************************************)
(* The driver functions run without preemption (as the handler runs them). *)
(***************************************************************************)
gpio_configure(p, pad, pin, mode) ==
    IF ConfigureStatus(TRUE, pin, mode) # "STATUS_OK" THEN p
    ELSE LET w  == ConfigWord(pin)
             s  == ConfigShift(pin)
             p1 == Store(p, pad, w, ClearValue(p[w], s))
         IN  Store(p1, pad, w, SetValue(p1[w], ModeConfig(mode).config, s))

gpio_write(p, pad, pin, state) == Store(p, pad, WriteReg(state), WriteValue(pin))

GPIO_WritePin(p, pad, pin, state) == Store(p, pad, "BSRR", WritePinValue(pin, state))

gpio_toggle(p, pad, pin) == Store(p, pad, "ODR", ToggleValue(p.ODR, pin))

\* GPIO_ReadPin of the reference project:
\* (gpio->IDR & (1 << pin)) ? GPIO_PIN_SET : GPIO_PIN_RESET.
GPIO_ReadPin(p, pin) ==
    IF BitAnd(p.IDR, Shl(Bits(1), pin)) # {} THEN "GPIO_PIN_SET" ELSE "GPIO_PIN_RESET"

\* GPIO_TogglePin of the reference project, gpio->ODR ^= (1 << pin): the
\* value stored to ODR, from the value loaded from it.
TogglePinValue(odr, pin) == BitXor(odr, Shl(Bits(1), pin))

GPIO_TogglePin(p, pad, pin) == Store(p, pad, "ODR", TogglePinValue(p.ODR, pin))

(***************************************************************************)
(* Bounds and input sets.                                                  *)
(***************************************************************************)
\* Driver calls in one run, by the main context and the handler together.
MaxEvents == 2

Pins == 0 .. 15

\* gpio_configure is also called with pins past the last one.
CfgPins == Pins \cup {16, 255}

CfgModes == PinModes \cup {"PIN_MODE_UNKNOWN"}

\* The pins the interrupt handler works on: one in each configuration word.
IsrPins == {5, 8}

\* Register contents at the start: the reset state, a port with every kind
\* of pin configuration, and a port with every configuration bit set.
InitImages ==
    { \* the reset state: every pin a floating input
      [CRL |-> Word32(17476, 17476), CRH |-> Word32(17476, 17476),
       ODR |-> {}, pad |-> Bits(42405)],
      \* CRL = 0x8442B013, CRH = 0x302764B2, ODR = 0x5A3C, pads at 0x33CC
      [CRL |-> Word32(33858, 45075), CRH |-> Word32(12327, 25778),
       ODR |-> Bits(23100), pad |-> Bits(13260)],
      \* every configuration and output bit set, pads at 0
      [CRL |-> BitPos, CRH |-> BitPos, ODR |-> 0 .. 15, pad |-> {}] }

(***************************************************************************)
(* systick.c: the SysTick registers and systick_init.                      *)
(***************************************************************************)
SYSCLK_FREQ_HZ == 72000000

SYSTICK_ENABLE == Shl(Bits(1), 0)

SYSTICK_TICKINT == Shl(Bits(1), 1)

SYSTICK_CLKSOURCE == Shl(Bits(1), 2)

\* The registers at reset: the timer is off.
SysTickReset == [CTRL |-> {}, LOAD |-> {}, VAL |-> {}]

\* systick_init, line 28: SYSTICK_LOAD = (SYSCLK_FREQ_HZ / 1000) - 1.
systick_init_LOAD(st) ==
    LET reload == Bits((SYSCLK_FREQ_HZ \div 1000) - 1)
    IN  [st EXCEPT !.LOAD = reload]

\* systick_init, line 29: SYSTICK_VAL = 0.
systick_init_VAL(st) == [st EXCEPT !.VAL = {}]

\* A store to CTRL that switches the timer off when it finds it running.
systick_init_CTRL_toggle(st) ==
    [st EXCEPT !.CTRL =
        IF SYSTICK_ENABLE \subseteq st.CTRL THEN {}
        ELSE BitOr(BitOr(SYSTICK_ENABLE, SYSTICK_TICKINT), SYSTICK_CLKSOURCE)]

\* systick_init, line 32: SYSTICK_CTRL = ENABLE | TICKINT | CLKSOURCE.
systick_init_CTRL(st) ==
    [st EXCEPT !.CTRL = BitOr(BitOr(SYSTICK_ENABLE, SYSTICK_TICKINT),
                              SYSTICK_CLKSOURCE)]

\* systick_init from its entry to its return: the three stores in order.
systick_init(st) == systick_init_CTRL(systick_init_VAL(systick_init_LOAD(st)))

\* The timer raises the tick interrupt when it counts and its interrupt is
\* enabled.
TickRunning(st) == BitOr(SYSTICK_ENABLE, SYSTICK_TICKINT) \subseteq st.CTRL

VARIABLES
    app_pin,  \* the pin the main context works on (LED_PIN in main.c, any here)
    port,     \* the register block of one GPIO port (gpio_port_t)
    pad,      \* the levels applied to the 16 pads from outside
    pc,       \* the main context's position inside the current driver call
    call,     \* the current (or last completed) main-context call
    prev,     \* the main-context call completed before it
    trace,    \* the register accesses of the current main-context call
    ncalls,   \* main-context calls made
    nirq      \* interrupts taken

gvars == <<app_pin, port, pad, pc, call, prev, trace, ncalls, nirq>>

VARIABLES
    tick_count,  \* static volatile u32 tick_count
    mark,        \* a value the counter held; the start of the timeouts
    since,       \* handler invocations since the counter held mark, as
                 \* <<hi, lo>> with hi unbounded (it counts past 2^32)
    nt,          \* handler invocations in this run
    dl,          \* the delay_ms call in progress in the main context
    last         \* the call that returned in the step just taken, with its result

VARIABLES
    systick,     \* the SysTick registers CTRL, LOAD and VAL
    in_isr,      \* the driver is called from an interrupt handler (the tick
                 \* interrupt is held off)
    ipc,         \* the caller's position inside systick_init
    fired,       \* the timeouts timeout_elapsed(mark, t) has reported elapsed,
                 \* each with the value of since at the first report
    ml           \* the frame of main_loop: its position, now, last_toggle and
                 \* led_state; with them lag, the handler invocations since
                 \* its last step; changed, the LED has been changed; smp, the
                 \* value of since when now was sampled; at and at_smp, the
                 \* values of since and smp at the last change of the LED;
                 \* gap, the handler invocations between the last two changes

xvars == <<systick, in_isr, ipc, fired, ml>>

tvars == <<tick_count, mark, since, nt, dl, last, xvars>>

vars == <<gvars, tvars>>

NoDelay == [active |-> FALSE, start |-> <<0, 0>>, ms |-> 0, waited |-> 0, spun |-> FALSE]

NoStep == [op |-> "none", arg |-> <<0, 0>>, ret |-> "none", waited |-> 0, spun |-> FALSE]

\* main_loop not entered.
NoLoop ==
    [pc |-> "off", now |-> <<0, 0>>, last_toggle |-> <<0, 0>>, led_state |-> FALSE,
     lag |-> 0, changed |-> FALSE, smp |-> <<0, 0>>, at |-> <<0, 0>>,
     at_smp |-> <<0, 0>>, gap |-> 0]

\* The timer running as systick_init leaves it, the main context running,
\* main_loop not entered.
Running ==
    /\ systick = systick_init(SysTickReset)
    /\ in_isr = FALSE /\ ipc = "idle" /\ fired = {} /\ ml = NoLoop

\* The tick clock when the run is about the GPIO port.
TickOff ==
    /\ tick_count = <<0, 0>> /\ mark = <<0, 0>> /\ since = <<0, 0>>
    /\ nt = 0 /\ dl = NoDelay /\ last = NoStep
    /\ Running

NoCall ==
    [op |-> "none", valid |-> TRUE, pin |-> 0, arg |-> "none", tmp |-> {},
     ret |-> "none", entry |-> <<>>, irqs |-> <<>>]

GpioInit ==
    /\ app_pin \in CfgPins
    /\ \E im \in InitImages :
          /\ pad = im.pad
          /\ port = Periph([CRL |-> im.CRL, CRH |-> im.CRH, IDR |-> {}, ODR |-> im.ODR,
                            BSRR |-> {}, BRR |-> {}, LCKR |-> {}], im.pad, "none")
    /\ pc = "idle"
    /\ call = NoCall
    /\ prev = NoCall
    /\ trace = <<>>
    /\ ncalls = 0
    /\ nirq = 0
    /\ TickOff

Enter(op, valid, pin, arg, first, ret) ==
    /\ pc = "idle"
    /\ ncalls + nirq < MaxEvents
    /\ ncalls' = ncalls + 1
    /\ prev' = call
    /\ call' = [op |-> op, valid |-> valid, pin |-> pin, arg |-> arg, tmp |-> {},
                ret |-> ret, entry |-> port, irqs |-> <<>>]
    /\ trace' = <<>>
    /\ pc' = first
    /\ UNCHANGED <<app_pin, port, pad, nirq, tvars>>

\* A load by the main context: the value goes to the call's temporary; ret
\* is the call's result when it returns after this load, "none" otherwise.
Load(at, reg, next, ret) ==
    /\ pc = at
    /\ call' = [call EXCEPT !.tmp = port[reg], !.ret = ret]
    /\ trace' = Append(trace, <<"ld", reg, port[reg]>>)
    /\ pc' = next
    /\ UNCHANGED <<app_pin, port, pad, prev, ncalls, nirq, tvars>>

\* A store by the main context; ret is the call's result when it returns
\* after this store, "none" otherwise.
StoreStep(at, reg, val, next, ret) ==
    /\ pc = at
    /\ port' = Store(port, pad, reg, val)
    /\ trace' = Append(trace, <<"st", reg, val>>)
    /\ call' = [call EXCEPT !.ret = ret]
    /\ pc' = next
    /\ UNCHANGED <<app_pin, pad, prev, ncalls, nirq, tvars>>

(***************************************************************************)
(* gpio_configure in the main context.                                     *)
(***************************************************************************)
Call_gpio_configure ==
    \E valid \in BOOLEAN, mode \in CfgModes :
       IF ConfigureStatus(valid, app_pin, mode) = "STATUS_OK"
       THEN Enter("configure", valid, app_pin, mode, "cfg_ld1", "none")
       ELSE Enter("configure", valid, app_pin, mode, "idle", "STATUS_INVALID_PARAM")

\* port->CRx &= ~(0xF << shift): the load, then the store.
Cfg_ld1 == Load("cfg_ld1", ConfigWord(call.pin), "cfg_st1", "none")

Cfg_st1 ==
    StoreStep("cfg_st1", ConfigWord(call.pin),
              ClearValue(call.tmp, ConfigShift(call.pin)), "cfg_ld2", "none")

\* port->CRx |= (config << shift): the load, then the store; return STATUS_OK.
Cfg_ld2 == Load("cfg_ld2", ConfigWord(call.pin), "cfg_st2", "none")

\* A second store that works on the register, not on the value loaded.
Cfg_st2_atomic ==
    StoreStep("cfg_st2", ConfigWord(call.pin),
              SetValue(port[ConfigWord(call.pin)], ModeConfig(call.arg).config,
                       ConfigShift(call.pin)),
              "idle", "STATUS_OK")

Cfg_st2 ==
    StoreStep("cfg_st2", ConfigWord(call.pin),
              SetValue(call.tmp, ModeConfig(call.arg).config, ConfigShift(call.pin)),
              "idle", "STATUS_OK")

(***************************************************************************)
(* gpio_write, gpio_read and gpio_toggle in the main context.              *)
(***************************************************************************)
Call_gpio_write ==
    \E state \in PinStates :
       /\ app_pin \in Pins
       /\ Enter("write", TRUE, app_pin, state, "wr_st", "none")

Wr_st == StoreStep("wr_st", WriteReg(call.arg), WriteValue(call.pin), "idle", "void")

\* GPIO_WritePin of the reference project, on the same register block.
Call_GPIO_WritePin ==
    \E state \in GPIO_PinStates :
       /\ app_pin \in Pins
       /\ Enter("WritePin", TRUE, app_pin, state, "wp_st", "none")

Wp_st == StoreStep("wp_st", "BSRR", WritePinValue(call.pin, call.arg), "idle", "void")

Call_gpio_read ==
    /\ app_pin \in Pins
    /\ Enter("read", TRUE, app_pin, "none", "rd_ld", "none")

Rd_ld == Load("rd_ld", "IDR", "idle", gpio_read(port, call.pin))

Call_gpio_toggle ==
    /\ app_pin \in Pins
    /\ Enter("toggle", TRUE, app_pin, "none", "tog_ld", "none")

\* port->ODR ^= (1 << pin): the load, then the store.
Tog_ld == Load("tog_ld", "ODR", "tog_st", "none")

\* A toggle whose store recomputes from the register (an atomic toggle).
Tog_st_atomic == StoreStep("tog_st", "ODR", ToggleValue(port.ODR, call.pin), "idle", "void")

Tog_st == StoreStep("tog_st", "ODR", ToggleValue(call.tmp, call.pin), "idle", "void")

(***************************************************************************)
(* GPIO_Init of the reference project in the main context, on the same     *)
(* register block.                                                         *)
(***************************************************************************)
Call_GPIO_Init ==
    \E mode \in GPIO_Mode_t, config \in GPIO_Config_t :
       /\ app_pin \in Pins
       /\ Enter("Init", TRUE, app_pin, <<mode, config>>, "init_ld1", "none")

Init_ld1 == Load("init_ld1", InitWord(call.pin), "init_st1", "none")

Init_st1 ==
    StoreStep("init_st1", InitWord(call.pin),
              InitClear(call.tmp, InitPos(call.pin)), "init_ld2", "none")

Init_ld2 == Load("init_ld2", InitWord(call.pin), "init_st2", "none")

Init_st2 ==
    StoreStep("init_st2", InitWord(call.pin),
              InitSet(call.tmp, call.arg[1], call.arg[2], InitPos(call.pin)),
              "idle", "void")

(***************************************************************************)
(* An interrupt handler that calls the driver on the same port.  It runs   *)
(* to completion before the main context continues.                        *)
(***************************************************************************)
Irq(op, pin, arg, p) ==
    /\ ncalls + nirq < MaxEvents
    /\ nirq' = nirq + 1
    /\ port' = p
    /\ call' = [call EXCEPT !.irqs =
                   Append(@, [op |-> op, pin |-> pin, arg |-> arg, at |-> pc])]
    /\ UNCHANGED <<app_pin, pad, pc, prev, trace, ncalls, tvars>>

Isr_gpio_write ==
    \E pin \in IsrPins, state \in PinStates :
       Irq("write", pin, state, gpio_write(port, pad, pin, state))

Isr_gpio_toggle ==
    \E pin \in IsrPins : Irq("toggle", pin, "none", gpio_toggle(port, pad, pin))

Isr_gpio_configure ==
    \E pin \in IsrPins, mode \in PinModes :
       Irq("configure", pin, mode, gpio_configure(port, pad, pin, mode))

(***************************************************************************)
(* GPIO_ReadPin and GPIO_TogglePin of the reference project in the main    *)
(* context, and an interrupt handler that calls GPIO_WritePin or           *)
(* GPIO_TogglePin on the same port.                                        *)
(***************************************************************************)
Call_GPIO_ReadPin ==
    /\ app_pin \in Pins
    /\ Enter("ReadPin", TRUE, app_pin, "none", "rp_ld", "none")

ReadPin_ld == Load("rp_ld", "IDR", "idle", GPIO_ReadPin(port, call.pin))

Call_GPIO_TogglePin ==
    /\ app_pin \in Pins
    /\ Enter("TogglePin", TRUE, app_pin, "none", "tp_ld", "none")

\* gpio->ODR ^= (1 << pin): the load, then the store.
TogglePin_ld == Load("tp_ld", "ODR", "tp_st", "none")

TogglePin_st ==
    StoreStep("tp_st", "ODR", TogglePinValue(call.tmp, call.pin), "idle", "void")

Isr_GPIO_WritePin ==
    \E pin \in IsrPins, state \in GPIO_PinStates :
       Irq("WritePin", pin, state, GPIO_WritePin(port, pad, pin, state))

Isr_GPIO_TogglePin ==
    \E pin \in IsrPins : Irq("TogglePin", pin, "none", GPIO_TogglePin(port, pad, pin))

(***************************************************************************)
(* systick.c.  A u32 is kept as its two 16-bit halves <<hi, lo>>; the      *)
(* arithmetic below is that of the type: modulo 2^32.                      *)
(***************************************************************************)
H16 == 65536

U32(n) == <<(n \div H16) % H16, n % H16>>

\* x + 1 on a u32: the value after 0xFFFFFFFF is 0.
Inc32(x) ==
    IF x[2] = H16 - 1 THEN <<(x[1] + 1) % H16, 0>> ELSE <<x[1], x[2] + 1>>

\* a - b on u32 operands.
Sub32(a, b) ==
    LET borrow == IF a[2] < b[2] THEN 1 ELSE 0
    IN  <<(a[1] + H16 - b[1] - borrow) % H16, (a[2] + H16 - b[2]) % H16>>

\* a + b on u32 operands.
Add32(a, b) == Sub32(a, Sub32(<<0, 0>>, b))

\* a < b on u32 operands.
Lt32(a, b) == a[1] < b[1] \/ (a[1] = b[1] /\ a[2] < b[2])

\* systick_get_ticks: return tick_count.
systick_get_ticks(tc) == tc

\* A comparison against the absolute deadline start_tick + timeout_ms.
timeout_elapsed_deadline(tc, start_tick, timeout_ms) ==
    ~Lt32(tc, Add32(start_tick, timeout_ms))

\* A comparison for equality.
timeout_elapsed_exact(tc, start_tick, timeout_ms) == Sub32(tc, start_tick) = timeout_ms

\* timeout_elapsed: (tick_count - start_tick) >= timeout_ms.
timeout_elapsed(tc, start_tick, timeout_ms) == ~Lt32(Sub32(tc, start_tick), timeout_ms)

DelayLoopCond_le(tc, start, ms) == ~Lt32(ms, Sub32(tc, start))

DelayLoopCond_deadline(tc, start, ms) == Lt32(tc, Add32(start, ms))

\* The loop condition of delay_ms: (tick_count - start) < ms.
DelayLoopCond(tc, start, ms) == Lt32(Sub32(tc, start), ms)

\* An increment that stops at 0xFFFFFFFF.
TickIncrement_saturating(tc) == IF tc = <<H16 - 1, H16 - 1>> THEN tc ELSE Inc32(tc)

\* SysTick_Handler: tick_count++.
TickIncrement(tc) == Inc32(tc)

(***************************************************************************)
(* Bounds and input sets of the tick clock.                                *)
(***************************************************************************)
\* Handler invocations in one run.
MaxTicks == 34

\* Handler invocations in one run that starts at boot.
BootTicks == 501

\* The longest delay asked for.
MaxDelay == 3

Delays == 0 .. MaxDelay

\* The longest delay asked for in a run that starts at boot.
MaxBootDelay == 1

BootDelays == 0 .. MaxBootDelay

\* 0, 1, 32, 33, 0xFFFFFFFE, 0xFFFFFFFF
Timeouts ==
    {U32(0), U32(1), U32(32), U32(33), <<H16 - 1, H16 - 2>>, <<H16 - 1, H16 - 1>>}

BootTimeouts == {U32(500), U32(501)}

\* Counter values taken as the start of a timeout:
\* 0, 0xFFFFFFF0, 0xFFFFFFFF, 0x7FFFFFFF.
Starts == {U32(0), <<H16 - 1, H16 - 16>>, <<H16 - 1, H16 - 1>>, <<32767, H16 - 1>>}

\* Handler invocations already made since the counter held the start
\* value, when the run begins: none, or 2^32 - 2.
SinceInit == {<<0, 0>>, <<H16 - 1, H16 - 2>>}

\* since + 1.
CountUp(n) == IF n[2] = H16 - 1 THEN <<n[1] + 1, 0>> ELSE <<n[1], n[2] + 1>>

\* The count n as a u32: n mod 2^32.
Mod32(n) == <<n[1] % H16, n[2]>>

\* The GPIO port when the run is about the tick clock.
GpioOff ==
    /\ app_pin = 0 /\ port = <<>> /\ pad = {} /\ pc = "idle"
    /\ call = NoCall /\ prev = NoCall /\ trace = <<>> /\ ncalls = 0 /\ nirq = 0

\* The counter held start, and n handler invocations have happened since.
TickCounts(start, n) ==
    /\ mark = start
    /\ since = n
    /\ tick_count = Add32(start, Mod32(n))
    /\ nt = 0 /\ dl = NoDelay /\ last = NoStep

\* The same, with the driver called from the main context.
TickState(start, n) == TickCounts(start, n) /\ Running

\* The driver called from within an interrupt handler: the tick interrupt
\* is not taken until the handler returns.
Handling ==
    /\ systick = systick_init(SysTickReset)
    /\ in_isr = TRUE /\ ipc = "idle" /\ fired = {} /\ ml = NoLoop

\* Any point of the firmware's life, the driver called from the main
\* context or from within an interrupt handler.
IsrInit ==
    GpioOff /\ \E s \in Starts, n \in SinceInit :
                  TickCounts(s, n) /\ (Running \/ Handling)

\* Any point of the firmware's life: some start value, and the counter
\* either still there or 2^32 - 2 ticks further.
TickInit == GpioOff /\ \E s \in Starts, n \in SinceInit : TickState(s, n)

\* Boot (tick_count = 0), or 2^32 - 2 ticks after boot.
BootInit == GpioOff /\ \E n \in SinceInit : TickState(<<0, 0>>, n)

\* A tick interrupt that is taken while a handler is running.
TickStep_nested ==
    /\ TickRunning(systick)
    /\ tick_count' = TickIncrement(tick_count)
    /\ since' = CountUp(since)
    /\ last' = NoStep
    /\ UNCHANGED <<mark, gvars, systick, in_isr, ipc, fired>>

\* One invocation of SysTick_Handler: the tick interrupt is taken when the
\* timer runs and no handler is running.
TickStep ==
    /\ TickRunning(systick) /\ ~in_isr
    /\ tick_count' = TickIncrement(tick_count)
    /\ since' = CountUp(since)
    /\ last' = NoStep
    /\ UNCHANGED <<mark, gvars, systick, in_isr, ipc, fired>>

\* SysTick_Handler.  While the main context is inside delay_ms the
\* invocation is counted for that call.
SysTick_Handler(max) ==
    /\ TickStep
    /\ nt < max
    /\ nt' = nt + 1
    /\ dl' = IF dl.active THEN [dl EXCEPT !.waited = @ + 1] ELSE dl
    /\ UNCHANGED ml

\* The caller is between two calls of the driver.
Idle == ~dl.active /\ ipc = "idle"

Call_systick_get_ticks ==
    /\ Idle
    /\ last' = [NoStep EXCEPT !.op = "systick_get_ticks",
                              !.ret = systick_get_ticks(tick_count)]
    /\ UNCHANGED <<tick_count, mark, since, nt, dl, gvars, xvars>>

\* timeout_elapsed(mark, t), called by the main context.
TimeoutStep(T) ==
    /\ Idle
    /\ \E t \in T :
          last' = [NoStep EXCEPT !.op = "timeout_elapsed", !.arg = t,
                                 !.ret = timeout_elapsed(tick_count, mark, t)]
    /\ UNCHANGED <<tick_count, mark, since, nt, dl, gvars, systick, in_isr, ipc, ml>>

Call_timeout_elapsed(T) == TimeoutStep(T) /\ UNCHANGED fired

\* The same call, with its first true result kept on record.
Call_timeout_elapsed_noted(T) ==
    /\ TimeoutStep(T)
    /\ fired' = IF last'.ret = TRUE /\ (\A f \in fired : f[1] # last'.arg)
                THEN fired \cup {<<last'.arg, since>>}
                ELSE fired

\* The timeouts of the repeated calls: 1 and 32.
OnceTimeouts == {U32(1), U32(32)}

OnceNext ==
    \/ SysTick_Handler(MaxTicks)
    \/ Call_systick_get_ticks
    \/ Call_timeout_elapsed_noted(OnceTimeouts)

\* delay_ms(ms): u32 start = tick_count.
Call_delay_ms(D) ==
    /\ Idle
    /\ \E ms \in D :
          dl' = [active |-> TRUE, start |-> tick_count, ms |-> ms, waited |-> 0,
                 spun |-> FALSE]
    /\ last' = NoStep
    /\ UNCHANGED <<tick_count, mark, since, nt, gvars, xvars>>

\* delay_ms: one evaluation of the loop condition; the loop goes round or
\* the call returns.
DelayStep ==
    /\ dl.active
    /\ IF DelayLoopCond(tick_count, dl.start, U32(dl.ms))
       THEN /\ dl' = [dl EXCEPT !.spun = TRUE]
            /\ last' = NoStep
       ELSE /\ dl' = NoDelay
            /\ last' = [NoStep EXCEPT !.op = "delay_ms", !.arg = U32(dl.ms),
                                      !.waited = dl.waited, !.spun = dl.spun]
    /\ UNCHANGED <<tick_count, nt, gvars, systick, ipc, fired, ml>>

\* The loop of delay_ms.
Delay_check == DelayStep /\ UNCHANGED <<mark, since, in_isr>>

(***************************************************************************)
(* One call of delay_ms followed from its entry to its return, with the    *)
(* tick interrupt firing for as long as the call lasts.  mark and since    *)
(* are taken anew at every evaluation of the loop condition: since is the  *)
(* number of handler invocations since the last evaluation (or since the   *)
(* capture of start).                                                      *)
(***************************************************************************)
\* Handler invocations, one at a time, between two evaluations of the loop
\* condition.
MaxGap == 2

LiveInit == GpioOff /\ \E s \in Starts : TickState(s, <<0, 0>>)

Live_delay_ms == last.op # "delay_ms" /\ Call_delay_ms(Delays)

Delay_check_marked ==
    /\ DelayStep
    /\ mark' = tick_count
    /\ since' = <<0, 0>>
    /\ UNCHANGED in_isr

\* SysTick_Handler during the call: up to MaxGap invocations between two
\* evaluations, or one more after a run of 2^32 - 1.
SysTick_free ==
    /\ dl.active
    /\ (since[1] = 0 /\ since[2] < MaxGap) \/ since = <<H16 - 1, H16 - 1>>
    /\ TickStep
    /\ UNCHANGED <<nt, dl, ml>>

\* k invocations of SysTick_Handler in a row: the counter k times
\* incremented.
TickAdvance(tc, k) == Add32(tc, k)

\* 2^32 - 1 invocations of SysTick_Handler with no evaluation of the loop
\* condition in between.
SysTick_wrap ==
    /\ dl.active /\ since = <<0, 0>>
    /\ TickRunning(systick) /\ ~in_isr
    /\ tick_count' = TickAdvance(tick_count, <<H16 - 1, H16 - 1>>)
    /\ since' = <<H16 - 1, H16 - 1>>
    /\ UNCHANGED <<mark, nt, dl, last, gvars, xvars>>

LiveHandler == SysTick_free \/ SysTick_wrap

LiveNext ==
    \/ Live_delay_ms
    \/ Delay_check_marked
    \/ SysTick_free
    \/ SysTick_wrap

(***************************************************************************)
(* main.c: led_init, led_set and main_loop, with the tick interrupt.  An   *)
(* iteration of main_loop is two steps: the sampling of the counter, and   *)
(* the rest (the comparison and, when due, the change of the LED and of    *)
(* last_toggle).                                                           *)
(***************************************************************************)
LED_PIN == 13

LED_ACTIVE_LOW == 1

BLINK_PERIOD_MS == 500

\* Handler invocations in one run of main_loop.
LoopTicks == 1010

\* Handler invocations between two steps of main_loop.
MaxLag == 2

\* led_set: gpio_write(LED_PORT, LED_PIN, on ? PIN_LOW : PIN_HIGH) when
\* LED_ACTIVE_LOW, on ? PIN_HIGH : PIN_LOW otherwise.
led_set(p, pd, on) ==
    gpio_write(p, pd, LED_PIN,
               IF LED_ACTIVE_LOW # 0
               THEN (IF on THEN "PIN_LOW" ELSE "PIN_HIGH")
               ELSE (IF on THEN "PIN_HIGH" ELSE "PIN_LOW"))

\* led_init: gpio_configure(LED_PORT, LED_PIN, PIN_MODE_OUTPUT), led_set(false).
led_init(p, pd) == led_set(gpio_configure(p, pd, LED_PIN, "PIN_MODE_OUTPUT"), pd, FALSE)

\* A comparison against the absolute time last_toggle + BLINK_PERIOD_MS.
BlinkDue_abs(now, last_toggle) ==
    ~Lt32(now, Add32(last_toggle, U32(BLINK_PERIOD_MS)))

\* (now - last_toggle) >= BLINK_PERIOD_MS.
BlinkDue(now, last_toggle) == ~Lt32(Sub32(now, last_toggle), U32(BLINK_PERIOD_MS))

\* The LED port after led_init, from the reset state of the port.
LedPort ==
    led_init(Periph([CRL |-> Word32(17476, 17476), CRH |-> Word32(17476, 17476),
                     IDR |-> {}, ODR |-> {}, BSRR |-> {}, BRR |-> {}, LCKR |-> {}],
                    {}, "none"), {})

\* main_loop at the top of an iteration, n handler invocations after boot:
\* just entered (n = 0), or having just changed the LED to on with the
\* sample n.
LoopStart(n, toggled) ==
    /\ app_pin = LED_PIN /\ pad = {} /\ pc = "idle"
    /\ port = IF toggled THEN led_set(LedPort, {}, TRUE) ELSE LedPort
    /\ call = NoCall /\ prev = NoCall /\ trace = <<>> /\ ncalls = 0 /\ nirq = 0
    /\ mark = <<0, 0>> /\ since = n /\ tick_count = Mod32(n)
    /\ nt = 0 /\ dl = NoDelay /\ last = NoStep
    /\ systick = systick_init(SysTickReset)
    /\ in_isr = FALSE /\ ipc = "idle" /\ fired = {}
    /\ ml = [pc |-> "top", now |-> Mod32(n),
             last_toggle |-> IF toggled THEN Mod32(n) ELSE <<0, 0>>,
             led_state |-> toggled, lag |-> 0, changed |-> toggled,
             smp |-> n, at |-> n, at_smp |-> n, gap |-> 0]

\* At boot, or 256 ticks before the counter wraps.
LoopInit == LoopStart(<<0, 0>>, FALSE) \/ LoopStart(<<H16 - 1, H16 - 256>>, TRUE)

\* u32 now = systick_get_ticks().
Loop_sample ==
    /\ ml.pc = "top"
    /\ ml' = [ml EXCEPT !.pc = "act", !.now = systick_get_ticks(tick_count),
                        !.lag = 0, !.smp = since]
    /\ UNCHANGED <<gvars, tick_count, mark, since, nt, dl, last, systick, in_isr, ipc, fired>>

\* if ((now - last_toggle) >= BLINK_PERIOD_MS) { led_state = !led_state;
\* led_set(led_state); last_toggle = now; }
Loop_act ==
    /\ ml.pc = "act"
    /\ IF BlinkDue(ml.now, ml.last_toggle)
       THEN /\ port' = led_set(port, pad, ~ml.led_state)
            /\ ml' = [ml EXCEPT !.pc = "top", !.led_state = ~ml.led_state,
                                !.last_toggle = ml.now, !.lag = 0,
                                !.changed = TRUE, !.at = since, !.at_smp = ml.smp,
                                !.gap = IF ml.changed
                                        THEN (since[1] - ml.at[1]) * H16
                                                + (since[2] - ml.at[2])
                                        ELSE 0]
       ELSE /\ port' = port
            /\ ml' = [ml EXCEPT !.pc = "top", !.lag = 0]
    /\ UNCHANGED <<app_pin, pad, pc, call, prev, trace, ncalls, nirq>>
    /\ UNCHANGED <<tick_count, mark, since, nt, dl, last, systick, in_isr, ipc, fired>>

\* SysTick_Handler preempting main_loop.
SysTick_loop ==
    /\ TickStep
    /\ nt < LoopTicks /\ ml.lag < MaxLag
    /\ nt' = nt + 1
    /\ ml' = [ml EXCEPT !.lag = @ + 1]
    /\ UNCHANGED dl

LoopNext == Loop_sample \/ Loop_act \/ SysTick_loop

\* The timer at reset, before systick_init: tick_count = 0.
BootReset ==
    /\ tick_count = <<0, 0>> /\ mark = <<0, 0>> /\ since = <<0, 0>>
    /\ nt = 0 /\ dl = NoDelay /\ last = NoStep
    /\ systick = SysTickReset
    /\ in_isr = FALSE /\ ipc = "idle" /\ fired = {} /\ ml = NoLoop

\* Before systick_init, or at any later point of the firmware's life.
ClockInit ==
    GpioOff /\ (BootReset \/ \E s \in Starts, n \in SinceInit : TickState(s, n))

\* A systick_init that also clears the counter.
Call_systick_init_reset ==
    /\ Idle
    /\ systick' = systick_init_LOAD(systick)
    /\ tick_count' = <<0, 0>>
    /\ ipc' = "st_val"
    /\ last' = NoStep
    /\ UNCHANGED <<mark, since, nt, dl, gvars, in_isr, fired, ml>>

\* systick_init is called: the store to LOAD.
Call_systick_init ==
    /\ Idle
    /\ systick' = systick_init_LOAD(systick)
    /\ ipc' = "st_val"
    /\ last' = NoStep
    /\ UNCHANGED <<tick_count, mark, since, nt, dl, gvars, in_isr, fired, ml>>

\* systick_init: the store to VAL.
Sysinit_stVAL ==
    /\ ipc = "st_val"
    /\ systick' = systick_init_VAL(systick)
    /\ ipc' = "st_ctrl"
    /\ last' = NoStep
    /\ UNCHANGED <<tick_count, mark, since, nt, dl, gvars, in_isr, fired, ml>>

\* systick_init: the store to CTRL, and the return.
Sysinit_stCTRL ==
    /\ ipc = "st_ctrl"
    /\ systick' = systick_init_CTRL(systick)
    /\ ipc' = "idle"
    /\ last' = [NoStep EXCEPT !.op = "systick_init"]
    /\ UNCHANGED <<tick_count, mark, since, nt, dl, gvars, in_isr, fired, ml>>

TickNext ==
    \/ SysTick_Handler(MaxTicks)
    \/ Call_systick_get_ticks
    \/ Call_timeout_elapsed(Timeouts)
    \/ Call_delay_ms(Delays)
    \/ Delay_check

BootNext ==
    \/ SysTick_Handler(BootTicks)
    \/ Call_systick_get_ticks
    \/ Call_timeout_elapsed(BootTimeouts)
    \/ Call_delay_ms(BootDelays)
    \/ Delay_check

GpioNext ==
    \/ Call_gpio_configure \/ Cfg_ld1 \/ Cfg_st1 \/ Cfg_ld2 \/ Cfg_st2
    \/ Call_gpio_write \/ Wr_st
    \/ Call_GPIO_WritePin \/ Wp_st
    \/ Call_gpio_read \/ Rd_ld
    \/ Call_gpio_toggle \/ Tog_ld \/ Tog_st
    \/ Isr_gpio_write \/ Isr_gpio_toggle \/ Isr_gpio_configure

\* The GPIO port, its driver and an interrupt handler that uses it.
Spec == GpioInit /\ [][GpioNext]_vars

RefInit == GpioInit /\ app_pin \in Pins

RefNext ==
    \/ Call_GPIO_Init \/ Init_ld1 \/ Init_st1 \/ Init_ld2 \/ Init_st2
    \/ Call_GPIO_WritePin \/ Wp_st
    \/ Call_GPIO_ReadPin \/ ReadPin_ld
    \/ Call_GPIO_TogglePin \/ TogglePin_ld \/ TogglePin_st
    \/ Isr_GPIO_WritePin \/ Isr_GPIO_TogglePin

\* The driver of the reference project on the GPIO port.
SpecRef == RefInit /\ [][RefNext]_vars

\* The tick clock at any point of the firmware's life.
SpecTick == TickInit /\ [][TickNext]_vars

\* The tick clock from boot.
SpecBoot == BootInit /\ [][BootNext]_vars

\* One delay_ms call: the tick interrupt keeps firing and the loop keeps
\* running.
SpecLive ==
    /\ LiveInit /\ [][LiveNext]_vars
    /\ WF_vars(LiveHandler)
    /\ WF_vars(Delay_check_marked)

\* The tick clock with timeout_elapsed called again and again with the
\* same arguments.
SpecOnce == TickInit /\ [][OnceNext]_vars

\* main_loop and the tick interrupt.
SpecLoop == LoopInit /\ [][LoopNext]_vars

\* The tick clock with its driver called from the main context or from
\* within an interrupt handler.
SpecIsr == IsrInit /\ [][TickNext]_vars

ClockNext == TickNext \/ Call_systick_init \/ Sysinit_stVAL \/ Sysinit_stCTRL

\* The tick clock with its set-up, from reset or from any later point.
SpecClock == ClockInit /\ [][ClockNext]_vars

(***************************************************************************)
(* Properties of the GPIO driver.                                          *)
(***************************************************************************)
\* The encodings the specification gives for the four modes.
Encoding(mode) ==
    CASE mode = "PIN_MODE_INPUT" -> 4
      [] mode = "PIN_MODE_OUTPUT" -> 2
      [] mode = "PIN_MODE_ALTERNATE" -> 11
      [] mode = "PIN_MODE_ANALOG" -> 0

Level(state) == IF state \in {"PIN_HIGH", "GPIO_PIN_SET"} THEN 1 ELSE 0

\* The main context's call has returned.
Returned(op) == pc = "idle" /\ call.op = op

\* No handler has run since the call was entered.
Unpreempted(c) == c.irqs = <<>>

\* No handler has written a configuration register since the call was entered.
NoCfgIrq(c) == \A i \in 1 .. Len(c.irqs) : c.irqs[i].op # "configure"

\* C1: after a gpio_configure(port, pin, mode) that returned STATUS_OK (and
\* during which no handler wrote a configuration register), the nibble of
\* the pin in the selected word (CRL for pins 0..7, CRH for 8..15) is the
\* encoding of the mode and every other nibble of that word is as it was
\* when the call was entered.
C1_ConfigureSetsNibble ==
    (Returned("configure") /\ call.ret = "STATUS_OK" /\ NoCfgIrq(call)) =>
        LET w == IF call.pin < 8 THEN "CRL" ELSE "CRH"
            k == call.pin % 8
        IN  /\ call.pin \in Pins
            /\ call.arg \in PinModes
            /\ Nibble(port[w], k) = Encoding(call.arg)
            /\ \A j \in 0 .. 7 : j # k => Nibble(port[w], j) = Nibble(call.entry[w], j)

\* A successful configure of the last pin of a word whose other nibbles are
\* not all zero and whose own nibble changed.
C1_Witness ==
    /\ Returned("configure") /\ call.ret = "STATUS_OK" /\ NoCfgIrq(call)
    /\ call.pin \in {7, 15}
    /\ call.arg = "PIN_MODE_ALTERNATE"
    /\ Nibble(call.entry[ConfigWord(call.pin)], 7) # 11
    /\ Nibble(call.entry[ConfigWord(call.pin)], 6) # 0

\* C2: gpio_configure with a NULL port, a pin above 15 or a mode outside
\* the four enumerated ones returns STATUS_INVALID_PARAM without any
\* register access, and leaves every register of the port as it was.
C2_InvalidConfigureWritesNothing ==
    (Returned("configure")
        /\ (~call.valid \/ call.pin > 15 \/ call.arg \notin PinModes)) =>
        /\ call.ret = "STATUS_INVALID_PARAM"
        /\ trace = <<>>
        /\ Unpreempted(call) => port = call.entry

C2_Witness ==
    /\ Returned("configure") /\ call.valid /\ call.pin = 16
    /\ call.arg = "PIN_MODE_OUTPUT"
    /\ call.ret = "STATUS_INVALID_PARAM"
    /\ port = call.entry

\* A gpio_read that directly follows a gpio_write of the same pin, with no
\* handler run in between.
ReadAfterWrite ==
    /\ Returned("read") /\ prev.op = "write" /\ prev.pin = call.pin
    /\ Unpreempted(prev) /\ Unpreempted(call)

\* C3 as stated: gpio_write(port, pin, s) followed by gpio_read(port, pin)
\* returns s, whatever the prior state of the port.
C3_ReadReturnsWritten == ReadAfterWrite => call.ret = prev.arg

\* C3, amended: gpio_write(port, pin, s) followed by gpio_read(port, pin)
\* returns s when the pin is configured as a general-purpose push-pull
\* output (CNF = 00, MODE # 00).
C3_ReadReturnsWrittenOnOutput ==
    (ReadAfterWrite /\ PinNibble(prev.entry, call.pin) \in {1, 2, 3}) =>
        call.ret = prev.arg

\* A push-pull output pin whose level the write changed and the read saw.
C3_Witness ==
    /\ ReadAfterWrite /\ PinNibble(prev.entry, call.pin) \in {1, 2, 3}
    /\ prev.arg = "PIN_HIGH"
    /\ Bit(prev.entry.ODR, call.pin) = 0
    /\ call.ret = "PIN_HIGH"

\* C4: two successive gpio_toggle calls on a pin, with no handler run in
\* between, leave ODR as it was; after the first, exactly the pin's bit
\* differs from the initial value.
C4_ToggleTwiceRestores ==
    (Returned("toggle") /\ prev.op = "toggle" /\ prev.pin = call.pin
        /\ Unpreempted(prev) /\ Unpreempted(call)) =>
        /\ port.ODR = prev.entry.ODR
        /\ \A i \in BitPos :
              ((i \in call.entry.ODR) # (i \in prev.entry.ODR)) <=> (i = call.pin)

C4_Witness ==
    /\ Returned("toggle") /\ prev.op = "toggle" /\ prev.pin = call.pin
    /\ Unpreempted(prev) /\ Unpreempted(call)
    /\ call.pin = 13
    /\ prev.entry.ODR \notin {{}, 0 .. 15}
    /\ port.ODR = prev.entry.ODR

\* A main-context write (gpio_write, or GPIO_WritePin of the reference
\* project) preempted, before or after its store, by one handler that
\* writes a different pin of the port.
WritePreemptedByWrite ==
    /\ pc = "idle" /\ call.op \in {"write", "WritePin"}
    /\ Len(call.irqs) = 1
    /\ call.irqs[1].op = "write"
    /\ call.irqs[1].pin # call.pin

\* C9: a write makes exactly one register access, a store of a value with
\* one bit set (gpio_write: bit pin of BSRR for High, of BRR for Low;
\* GPIO_WritePin: bit pin of BSRR to set, bit pin + 16 to reset), and never
\* loads ODR; and when a handler that writes a different pin preempts it
\* at any point, both pins end at their requested levels and no other
\* output changes.
C9_WriteIsOneStoreNoLostUpdate ==
    /\ Returned("write") =>
          trace = << <<"st", IF call.arg = "PIN_HIGH" THEN "BSRR" ELSE "BRR",
                       {call.pin}>> >>
    /\ Returned("WritePin") =>
          trace = << <<"st", "BSRR",
                       {IF call.arg = "GPIO_PIN_SET" THEN call.pin ELSE call.pin + 16}>> >>
    /\ WritePreemptedByWrite =>
          \A i \in BitPos :
             Bit(port.ODR, i) =
                IF i = call.pin THEN Level(call.arg)
                ELSE IF i = call.irqs[1].pin THEN Level(call.irqs[1].arg)
                ELSE Bit(call.entry.ODR, i)

\* The handler ran between the entry of gpio_write and its store and both
\* writes changed their pin.
C9_Witness ==
    /\ WritePreemptedByWrite
    /\ call.op = "write"
    /\ call.irqs[1].at = "wr_st"
    /\ Bit(call.entry.ODR, call.pin) # Level(call.arg)
    /\ Bit(call.entry.ODR, call.irqs[1].pin) # Level(call.irqs[1].arg)
    /\ Bit(port.ODR, call.pin) = Level(call.arg)
    /\ Bit(port.ODR, call.irqs[1].pin) = Level(call.irqs[1].arg)

\* A main-context gpio_toggle preempted between its load and its store of
\* ODR by one handler that writes or toggles a different pin.
TogglePreemptedMidway ==
    /\ Returned("toggle") /\ Len(call.irqs) = 1
    /\ call.irqs[1].at = "tog_st"
    /\ call.irqs[1].op \in {"write", "toggle"}
    /\ call.irqs[1].pin # call.pin

\* C10: gpio_toggle is a separate load and store of ODR: when a handler
\* changes another bit of ODR between the two, the toggle's store puts
\* back the value loaded, with only bit pin inverted; the handler's change
\* is lost.
C10_ToggleOverwritesHandler ==
    TogglePreemptedMidway =>
        \A i \in BitPos :
           Bit(port.ODR, i) =
              IF i = call.pin THEN 1 - Bit(call.entry.ODR, i)
              ELSE Bit(call.entry.ODR, i)

\* The handler inverted another output in between, and the inversion is
\* gone when the toggle has returned.
C10_Witness ==
    /\ TogglePreemptedMidway
    /\ call.irqs[1].op = "toggle"
    /\ Bit(port.ODR, call.irqs[1].pin) = Bit(call.entry.ODR, call.irqs[1].pin)

(***************************************************************************)
(* Properties of the tick clock.                                           *)
(***************************************************************************)
\* t <= n, for a u32 t and a count n.
LeCount(t, n) == t[1] < n[1] \/ (t[1] = n[1] /\ t[2] <= n[2])

\* timeout_elapsed(mark, t) has just returned.
Elapsed(t) == last.op = "timeout_elapsed" /\ last.arg = t

\* C5: with n < 2^32 handler invocations since the counter held s,
\* timeout_elapsed(s, t) is true exactly when t <= n, also when the counter
\* has wrapped past 0 since; with s = 0xFFFFFFF0 and n = 32,
\* timeout_elapsed(s, 32) is true and timeout_elapsed(s, 33) is false.
C5_TimeoutElapsedWraparoundSafe ==
    /\ (last.op = "timeout_elapsed" /\ since[1] < H16) =>
          (last.ret <=> LeCount(last.arg, since))
    /\ (mark = <<H16 - 1, H16 - 16>> /\ since = <<0, 32>>) =>
          /\ tick_count = U32(16)
          /\ Elapsed(U32(32)) => last.ret = TRUE
          /\ Elapsed(U32(33)) => last.ret = FALSE

\* 32 ticks after 0xFFFFFFF0 the counter has wrapped to 0x10 and
\* timeout_elapsed(0xFFFFFFF0, 32) has returned true.
C5_Witness ==
    /\ mark = <<H16 - 1, H16 - 16>> /\ since = <<0, 32>>
    /\ tick_count = U32(16)
    /\ Elapsed(U32(32)) /\ last.ret = TRUE

\* C6: from 0 at boot, after N handler invocations interleaved in any way
\* with systick_get_ticks, timeout_elapsed and delay_ms in the main
\* context, tick_count is N mod 2^32 and systick_get_ticks returns it;
\* after 500 invocations systick_get_ticks returns 500,
\* timeout_elapsed(0, 500) is true and timeout_elapsed(0, 501) is false.
C6_CounterCountsInvocations ==
    /\ tick_count = Mod32(since)
    /\ last.op = "systick_get_ticks" => last.ret = Mod32(since)
    /\ since = <<0, 500>> =>
          /\ last.op = "systick_get_ticks" => last.ret = U32(500)
          /\ Elapsed(U32(500)) => last.ret = TRUE
          /\ Elapsed(U32(501)) => last.ret = FALSE

\* 500 invocations after boot, timeout_elapsed(0, 501) has returned false.
C6_Witness ==
    /\ mark = <<0, 0>> /\ since = <<0, 500>> /\ nt = 500
    /\ tick_count = U32(500)
    /\ Elapsed(U32(501)) /\ last.ret = FALSE

\* C7: delay_ms(0) returns at the first evaluation of its loop condition,
\* which is false whatever the counter holds: no handler invocation is
\* needed and the loop body never runs.
C7_DelayZeroReturnsAtOnce ==
    /\ (dl.active /\ dl.ms = 0) => ~DelayLoopCond(tick_count, dl.start, U32(0))
    /\ (last.op = "delay_ms" /\ last.arg = U32(0)) => ~last.spun

\* delay_ms(0) has returned in a run in which the handler never ran, with
\* the counter at 0xFFFFFFFF.
C7_Witness ==
    /\ last.op = "delay_ms" /\ last.arg = U32(0)
    /\ last.waited = 0 /\ nt = 0
    /\ tick_count = <<H16 - 1, H16 - 1>>

\* C8: delay_ms(ms) never returns early: at least ms handler invocations
\* have happened between its capture of start and its return, also when
\* the counter wraps during the delay.
C8_DelayNeverEarly ==
    last.op = "delay_ms" => LeCount(last.arg, <<0, last.waited>>)

\* delay_ms(3) has returned after exactly 3 invocations, across the wrap.
C8_Witness ==
    /\ last.op = "delay_ms" /\ last.arg = U32(3)
    /\ last.waited = 3
    /\ tick_count[1] = 0 /\ tick_count[2] < 3

\* (x + 1) mod 2^32 of a counter value x.
NextTick(x) ==
    IF x = <<H16 - 1, H16 - 1>> THEN <<0, 0>>
    ELSE IF x[2] = H16 - 1 THEN <<x[1] + 1, 0>>
    ELSE <<x[1], x[2] + 1>>

\* C11: the tick counter has a single writer: a step changes tick_count
\* only if it is an invocation of SysTick_Handler, and then to
\* (previous + 1) mod 2^32; systick_init, systick_get_ticks,
\* timeout_elapsed and delay_ms (its entry, its loop and its return) leave
\* it unchanged, as does each of the three stores of systick_init, and
\* nothing resets it.
C11_SingleWriter ==
    [][/\ tick_count' # tick_count =>
             (nt' = nt + 1 /\ tick_count' = NextTick(tick_count))
       /\ nt' = nt + 1 => tick_count' = NextTick(tick_count)
       /\ last'.op \in {"systick_init", "systick_get_ticks", "timeout_elapsed",
                        "delay_ms"} => tick_count' = tick_count
       /\ (nt' = nt /\ (dl.active \/ dl'.active)) => tick_count' = tick_count
       /\ (nt' = nt /\ ipc' # ipc) => tick_count' = tick_count]_vars

\* systick_init has been called again after the counter wrapped to 0 and
\* went on to 1, and the counter is still 1.
C11_Witness ==
    /\ last.op = "systick_init"
    /\ since = <<H16, 1>> /\ nt = 3
    /\ tick_count = <<0, 1>>

\* C12 as stated: a delay_ms called by the main context eventually
\* returns, whatever ms and the starting counter value, when the handler
\* and the loop keep running, however many times the handler fires between
\* two evaluations of the loop condition.
C12_DelayReturns == dl.active ~> ~dl.active

\* More than 2^32 - ms handler invocations have happened since the last
\* evaluation of the loop condition.
Overrun ==
    dl.active /\
    ~LeCount(since, IF dl.ms = 0 THEN <<H16, 0>> ELSE <<H16 - 1, H16 - dl.ms>>)

\* C12, amended: a delay_ms called by the main context eventually returns
\* when the handler and the loop keep running and no more than 2^32 - ms
\* handler invocations happen between two evaluations of the loop
\* condition.
C12_DelayReturnsUnlessOverrun == dl.active ~> (~dl.active \/ Overrun)

\* delay_ms(3) captured 0xFFFFFFFF, spun, and returned after the counter
\* wrapped.
C12_Witness ==
    /\ last.op = "delay_ms" /\ last.arg = U32(3) /\ last.spun
    /\ ~dl.active
    /\ tick_count[1] = 0 /\ tick_count[2] \in 2 .. 4

\* C13: a delay_ms(ms) with ms > 0 called from within the tick interrupt
\* handler (the tick interrupt is not taken again before the handler
\* returns) never returns: while the handler is in the loop the counter
\* stays at the value captured as start, the loop condition stays true,
\* and every step leaves the handler inside delay_ms.
C13_DelayInHandlerNeverReturns ==
    [][(in_isr /\ dl.active /\ dl.ms > 0) =>
          /\ tick_count = dl.start
          /\ tick_count' = dl.start
          /\ in_isr' /\ dl'.active /\ dl'.ms = dl.ms /\ dl'.start = dl.start
          /\ last'.op # "delay_ms"]_vars

\* delay_ms(1) has been called from within a handler with the counter at
\* 0xFFFFFFFF, and is going round its loop.
C13_Witness ==
    /\ in_isr /\ dl.active /\ dl.ms = 1 /\ dl.spun
    /\ dl.start = <<H16 - 1, H16 - 1>> /\ tick_count = <<H16 - 1, H16 - 1>>

(***************************************************************************)
(* Further properties of the GPIO driver.                                  *)
(***************************************************************************)
\* A gpio_configure that passed its parameter checks, in progress or
\* returned.
ConfigureAccepted == call.op = "configure" /\ call.ret # "STATUS_INVALID_PARAM"

\* C14: every register access of a successful gpio_configure(port, pin,
\* mode) is to the selected configuration word (CRL for pin < 8, CRH
\* otherwise): a load and a store, twice.  Each value stored differs from
\* the word's value at entry only inside the pin's nibble, which the first
\* store leaves all-zero and the second at the encoding of the mode.  No
\* other register is accessed, and CRL or CRH (the other one), ODR, BSRR,
\* BRR and LCKR keep their values.  (Calls during which a handler rewrites
\* a configuration register are excluded.)
C14_ConfigureStoresOnlyItsNibble ==
    (ConfigureAccepted /\ NoCfgIrq(call)) =>
        LET w == IF call.pin < 8 THEN "CRL" ELSE "CRH"
            k == call.pin % 8
        IN  /\ Len(trace) <= 4
            /\ \A i \in 1 .. Len(trace) :
                  /\ trace[i][1] = (IF i \in {1, 3} THEN "ld" ELSE "st")
                  /\ trace[i][2] = w
                  /\ trace[i][1] = "st" =>
                        \A j \in 0 .. 7 :
                           j # k => Nibble(trace[i][3], j) = Nibble(call.entry[w], j)
            /\ Len(trace) >= 2 => Nibble(trace[2][3], k) = 0
            /\ Len(trace) >= 4 => Nibble(trace[4][3], k) = Encoding(call.arg)
            /\ pc = "idle" => Len(trace) = 4
            /\ Unpreempted(call) =>
                  \A r \in {"CRL", "CRH", "ODR", "BSRR", "BRR", "LCKR"} \ {w} :
                     port[r] = call.entry[r]

\* Between the two stores of a gpio_configure of pin 15: the nibble, not
\* zero at entry, is zero, and the rest of CRH is as at entry.
C14_Witness ==
    /\ ConfigureAccepted /\ Unpreempted(call)
    /\ pc = "cfg_ld2" /\ Len(trace) = 2
    /\ call.pin = 15
    /\ Nibble(call.entry.CRH, 7) # 0
    /\ Nibble(port.CRH, 7) = 0
    /\ Nibble(port.CRH, 6) = Nibble(call.entry.CRH, 6)
    /\ Nibble(port.CRH, 6) # 0

\* C15: in the reference project, GPIO_Init(port, pin, mode, config), for
\* every pin in 0..15, every GPIO_Mode_t and every GPIO_Config_t
\* enumerator, changes only the nibble of the pin in CRL/CRH: every other
\* nibble of that word keeps its value, and so does the other word.
C15_InitChangesOnlyItsNibble ==
    Returned("Init") =>
        LET w == IF call.pin < 8 THEN "CRL" ELSE "CRH"
            o == IF call.pin < 8 THEN "CRH" ELSE "CRL"
            k == call.pin % 8
        IN  /\ \A j \in 0 .. 7 : j # k => Nibble(port[w], j) = Nibble(call.entry[w], j)
            /\ port[o] = call.entry[o]

\* The output levels after a write of the pin of the call: the pin at the
\* requested level, the 15 other outputs (and the unused upper half of
\* ODR) as at entry.
OnlyPinDriven ==
    \A i \in BitPos :
       Bit(port.ODR, i) = IF i = call.pin THEN Level(call.arg) ELSE Bit(call.entry.ODR, i)

\* C16: the two write variants are equivalent on the outputs.  After an
\* unpreempted gpio_write (BSRR bit pin for High, BRR bit pin for Low), ODR
\* is what GPIO_WritePin (BSRR bit pin to set, bit pin + 16 to reset) makes
\* of the same port, pin and level, and the other way round; in both, the
\* addressed pin is at the requested level and no other output changed.
C16_WriteVariantsAgree ==
    /\ (Returned("write") /\ Unpreempted(call)) =>
          /\ port.ODR =
                GPIO_WritePin(call.entry, pad, call.pin,
                              IF call.arg = "PIN_HIGH" THEN "GPIO_PIN_SET"
                              ELSE "GPIO_PIN_RESET").ODR
          /\ OnlyPinDriven
    /\ (Returned("WritePin") /\ Unpreempted(call)) =>
          /\ port.ODR =
                gpio_write(call.entry, pad, call.pin,
                           IF call.arg = "GPIO_PIN_SET" THEN "PIN_HIGH" ELSE "PIN_LOW").ODR
          /\ OnlyPinDriven

\* GPIO_WritePin has reset pin 15, which was high, through bit 31 of BSRR.
C16_Witness ==
    /\ Returned("WritePin") /\ Unpreempted(call)
    /\ call.pin = 15 /\ call.arg = "GPIO_PIN_RESET"
    /\ Bit(call.entry.ODR, 15) = 1
    /\ port.BSRR = {31}
    /\ port.ODR = 0 .. 14

\* C17: gpio_read(port, pin) makes one register access, a load of IDR, and
\* returns PIN_HIGH if bit pin of the value loaded is set and PIN_LOW
\* otherwise; it stores to no register, and unpreempted it leaves the
\* whole port as it was.
C17_ReadReturnsIdrBit ==
    Returned("read") =>
        /\ Len(trace) = 1
        /\ trace[1][1] = "ld" /\ trace[1][2] = "IDR"
        /\ call.ret = (IF call.pin \in trace[1][3] THEN "PIN_HIGH" ELSE "PIN_LOW")
        /\ Unpreempted(call) => (port = call.entry /\ trace[1][3] = call.entry.IDR)

\* gpio_read of pin 13 has returned PIN_HIGH from an IDR with bits set and
\* bits clear around it, while bit 13 of ODR is clear.
C17_Witness ==
    /\ Returned("read") /\ Unpreempted(call)
    /\ call.pin = 13 /\ call.ret = "PIN_HIGH"
    /\ 13 \notin port.ODR
    /\ 12 \notin port.IDR /\ 15 \in port.IDR

\* A successful main-context gpio_configure during (or right after) which
\* one handler has called gpio_configure for a different pin of the same
\* configuration word.
ConfigurePreempted ==
    /\ Returned("configure") /\ call.ret = "STATUS_OK"
    /\ Len(call.irqs) = 1
    /\ call.irqs[1].op = "configure"
    /\ call.irqs[1].pin # call.pin
    /\ (call.irqs[1].pin < 8) <=> (call.pin < 8)

\* After the two calls: the main call's pin at its encoding, the handler's
\* pin at the value h, every other nibble of the word as before.
BothConfigured(h) ==
    LET w  == IF call.pin < 8 THEN "CRL" ELSE "CRH"
        k  == call.pin % 8
        kh == call.irqs[1].pin % 8
    IN  /\ Nibble(port[w], k) = Encoding(call.arg)
        /\ Nibble(port[w], kh) = h
        /\ \A j \in 0 .. 7 : j \notin {k, kh} => Nibble(port[w], j) = Nibble(call.entry[w], j)

\* The handler's pin as it was before the two calls.
HandlerPinAtEntry ==
    Nibble(call.entry[IF call.pin < 8 THEN "CRL" ELSE "CRH"], call.irqs[1].pin % 8)

\* C18 as stated: when the handler's gpio_configure preempts the main
\* call's at any point of its register accesses, both take effect: each
\* pin's nibble holds the encoding of its mode, all others are unchanged.
C18_BothConfiguresTakeEffect ==
    (ConfigurePreempted
        /\ call.irqs[1].at \in {"cfg_ld1", "cfg_st1", "cfg_ld2", "cfg_st2"}) =>
        BothConfigured(Encoding(call.irqs[1].arg))

\* C18, amended: both take effect when the handler runs before the main
\* call's first load, between its first store and its second load, or
\* after its last store; when the handler runs between a load and the
\* store that follows it, the main call's pin holds its encoding, the
\* handler's pin is back at its value from before the calls, and all
\* other nibbles are unchanged.
C18_ConfigureLosesHandlerBetweenLoadAndStore ==
    ConfigurePreempted =>
        BothConfigured(IF call.irqs[1].at \in {"cfg_st1", "cfg_st2"}
                       THEN HandlerPinAtEntry
                       ELSE Encoding(call.irqs[1].arg))

\* The handler configured pin 5 as an alternate-function pin between the
\* main call's first load and first store; its nibble is back at the
\* earlier, different value.
C18_Witness ==
    /\ ConfigurePreempted
    /\ call.irqs[1].at = "cfg_st1"
    /\ call.irqs[1].pin = 5 /\ call.irqs[1].arg = "PIN_MODE_ALTERNATE"
    /\ HandlerPinAtEntry # 11
    /\ Nibble(port.CRL, 5) = HandlerPinAtEntry

\* timeout_elapsed(mark, t) has just returned, and it had returned true
\* for the same arguments before.
ElapsedBefore ==
    /\ last.op = "timeout_elapsed"
    /\ \E f \in fired : f[1] = last.arg /\ f[2] # since

\* C19 as stated: once timeout_elapsed(start, timeout) has returned true,
\* every later call with the same start and timeout returns true, however
\* many handler invocations, full wraps included, happen in between.
C19_ElapsedStaysElapsed == ElapsedBefore => last.ret = TRUE

\* C19, amended: once timeout_elapsed(start, timeout) has returned true,
\* every later call with the same start and timeout returns true as long
\* as fewer than 2^32 handler invocations have happened since the counter
\* held start.
C19_ElapsedStaysElapsedWithinRange ==
    (ElapsedBefore /\ since[1] < H16) => last.ret = TRUE

\* timeout_elapsed(0xFFFFFFF0, 1) returned true after one tick and again,
\* with the counter wrapped, after 34.
C19_Witness ==
    /\ ElapsedBefore /\ last.arg = U32(1) /\ last.ret = TRUE
    /\ <<U32(1), <<0, 1>>>> \in fired
    /\ mark = <<H16 - 1, H16 - 16>> /\ since = <<0, 34>>
    /\ tick_count = U32(18)

(***************************************************************************)
(* Properties of main_loop.                                                *)
(***************************************************************************)
\* a - b for two counts less than 2^31 apart.
CountDiff(a, b) == (a[1] - b[1]) * H16 + (a[2] - b[2])

\* The step changes the level of the LED pin.
LedChanges == Bit(port'.ODR, 13) # Bit(port.ODR, 13)

\* The step is the second half of an iteration whose sample satisfies
\* (now - last_toggle) mod 2^32 >= 500, it sets last_toggle to the sample,
\* and at least 500 handler invocations have happened since boot.
ChangeIsDue ==
    /\ ml.pc = "act"
    /\ LET d == Sub32(ml.now, ml.last_toggle) IN d[1] > 0 \/ d[2] >= 500
    /\ ml'.last_toggle = ml.now
    /\ ml.now = Mod32(ml.smp)
    /\ since[1] > 0 \/ since[2] >= 500

\* C20 as stated: the LED changes only in an iteration whose sample
\* satisfies (now - last_toggle) mod 2^32 >= 500, last_toggle is then set
\* to the sample, the first change is no earlier than tick 500, and two
\* consecutive changes of the LED are at least 500 ticks apart.
C20_BlinkPeriodKept ==
    [][/\ LedChanges => ChangeIsDue
       /\ ml'.last_toggle # ml.last_toggle => LedChanges
       /\ (LedChanges /\ ml.changed) => CountDiff(since, ml.at) >= 500]_vars

\* C20, amended: the same, with the distance kept between the samples of
\* two consecutive changes: they are at least 500 ticks apart, and the
\* changes themselves at least 500 less the handler invocations that
\* happened between the earlier change's sample and that change.
C20_BlinkPeriodKeptBetweenSamples ==
    [][/\ LedChanges => ChangeIsDue
       /\ ml'.last_toggle # ml.last_toggle => LedChanges
       /\ (LedChanges /\ ml.changed) =>
             /\ CountDiff(ml.smp, ml.at_smp) >= 500
             /\ CountDiff(since, ml.at) >= 500 - CountDiff(ml.at, ml.at_smp)]_vars

\* The LED has been changed twice after the counter wrapped, the second
\* time 499 ticks after the first: the first a tick after its sample, the
\* second 500 ticks after that sample.
C20_Witness ==
    /\ ml.pc = "top" /\ ml.changed /\ ml.led_state
    /\ since[1] = H16
    /\ ml.last_toggle = Mod32(ml.at_smp) /\ ml.last_toggle[1] = 0
    /\ ml.gap = 499
    /\ ml.at = ml.at_smp
    /\ Bit(port.ODR, 13) = 0

\* The SysTick registers as systick_init leaves them: LOAD = 71999, VAL = 0,
\* CTRL = ENABLE | TICKINT | CLKSOURCE = 7.
Programmed(st) ==
    /\ st.LOAD = Bits(71999)
    /\ st.VAL = {}
    /\ st.CTRL = Bits(7)

\* C21: the tick clock has two states, uninitialized (CTRL = 0, the timer
\* off) and running (CTRL = ENABLE | TICKINT | CLKSOURCE), and never leaves
\* running; while it is uninitialized the counter stays 0; systick_init
\* stores 71999 to LOAD, 0 to VAL and ENABLE | TICKINT | CLKSOURCE to CTRL,
\* and returns with the registers so programmed; only the stores of
\* systick_init change the SysTick registers: systick_get_ticks, delay_ms
\* (entry, loop and return), timeout_elapsed and SysTick_Handler leave
\* CTRL, LOAD and VAL as they are.
C21_TwoStatesNeverLeavesRunning ==
    /\ [](/\ systick.CTRL = {} \/ systick.CTRL = Bits(7)
          /\ systick.CTRL = Bits(7) => Programmed(systick)
          /\ systick.LOAD = {} \/ systick.LOAD = Bits(71999)
          /\ systick.CTRL = {} => tick_count = <<0, 0>>
          /\ (systick # SysTickReset /\ ~Programmed(systick)) => ipc # "idle")
    /\ [][/\ Programmed(systick) => Programmed(systick')
          /\ TickRunning(systick) => TickRunning(systick')
          /\ last'.op = "systick_init" => Programmed(systick')
          /\ systick' # systick => (ipc' # ipc /\ nt' = nt)
          /\ (nt' = nt + 1 \/ dl.active \/ dl'.active
                \/ last'.op \in {"systick_get_ticks", "timeout_elapsed", "delay_ms"})
                => systick' = systick]_vars

\* After systick_init the handler has fired, a delay_ms that waited on it
\* has returned, and the timer is still programmed and running.
C21_Witness ==
    /\ last.op = "delay_ms" /\ last.waited >= 1 /\ nt >= 1
    /\ Programmed(systick) /\ TickRunning(systick)
    /\ mark = <<0, 0>> /\ since[1] = 0 /\ tick_count = since

====
